---- MODULE Spec2Model ----
(***************************************************************************)
(* Model of the FastAPI record-keeping service of src/main.py: three       *)
(* PostgreSQL tables (projects, employees, assignments) behind twelve      *)
(* route handlers.  Tables are sets of rows; every handler is one action.  *)
(* Spec runs the requests one after the other; SpecConc runs the store     *)
(* calls of two clients' requests interleaved.                             *)
(***************************************************************************)
EXTENDS Integers, Sequences, FiniteSets, TLC

VARIABLES projects, employees, assignments, seq, last, supplied, deleted,
          sess, refd

vars == <<projects, employees, assignments, seq, last, supplied, deleted,
          sess, refd>>

tables == <<projects, employees, assignments>>

\* ------------------------------------------------------------------ bounds
\* Number of ids the three id sequences hand out together in the model.
MaxInserts == 4

\* The sequences may hand out one more id.
MayInsert == seq["projects"] + seq["employees"] + seq["assignments"] - 3 < MaxInserts

\* Number of ids the sequences hand out together in the interleaved runs.
MaxConcInserts == 3

MayInsertConc ==
  seq["projects"] + seq["employees"] + seq["assignments"] - 3 < MaxConcInserts

\* Ids a client puts in a path or in a foreign-key field: every id the
\* table's sequence has handed out and the first one it has not.
PathIds(t) == 1..seq[t]

\* --------------------------------------------------------------- constants
TableNames == {"projects", "employees", "assignments"}

Clients == {1, 2}

\* Optional (Union[..., None]) values: None is << >>, a value v is << v >>.
None == << >>

Some(v) == << v >>

\* ------------------------------------------------------------ date texts
\* Text is a sequence of characters.
DigitChars == {"0", "1", "2", "3", "4", "5", "6", "7", "8", "9"}

DigitVal(c) ==
  CASE c = "0" -> 0 [] c = "1" -> 1 [] c = "2" -> 2 [] c = "3" -> 3
    [] c = "4" -> 4 [] c = "5" -> 5 [] c = "6" -> 6 [] c = "7" -> 7
    [] c = "8" -> 8 [] c = "9" -> 9

DigitChar(n) ==
  CASE n = 0 -> "0" [] n = 1 -> "1" [] n = 2 -> "2" [] n = 3 -> "3"
    [] n = 4 -> "4" [] n = 5 -> "5" [] n = 6 -> "6" [] n = 7 -> "7"
    [] n = 8 -> "8" [] n = 9 -> "9"

AllDigits(s, positions) == \A k \in positions : s[k] \in DigitChars

RECURSIVE Num(_, _, _)
\* The number written by the digits s[a..b].
Num(s, a, b) ==
  IF a > b THEN 0 ELSE 10 * Num(s, a, b - 1) + DigitVal(s[b])

IsLeap(y) == (y % 4 = 0 /\ y % 100 # 0) \/ y % 400 = 0

DaysInMonth(y, m) ==
  IF m = 2 THEN (IF IsLeap(y) THEN 29 ELSE 28)
  ELSE IF m \in {4, 6, 9, 11} THEN 30 ELSE 31

\* A calendar date, or None when the fields are out of range.
MakeDate(y, m, d) ==
  IF y >= 1 /\ m \in 1..12 /\ d \in 1..DaysInMonth(y, m)
  THEN Some([y |-> y, m |-> m, d |-> d])
  ELSE None

\* The text has the exchange format YYYY-MM-DD.
IsIsoShape(s) ==
  /\ Len(s) = 10
  /\ s[5] = "-"
  /\ s[8] = "-"
  /\ AllDigits(s, {1, 2, 3, 4, 6, 7, 9, 10})

\* The text has the basic format YYYYMMDD.
IsCompactShape(s) == Len(s) = 8 /\ AllDigits(s, 1..8)

\* What the store makes of a text bound to a Date column: the date, or
\* None when the store refuses the text (DataError).  The two input forms
\* covered are the ones the requests of this model use.
ParseDate(s) ==
  IF IsIsoShape(s)
  THEN MakeDate(Num(s, 1, 4), Num(s, 6, 7), Num(s, 9, 10))
  ELSE IF IsCompactShape(s)
  THEN MakeDate(Num(s, 1, 4), Num(s, 5, 6), Num(s, 7, 8))
  ELSE None

Digits2(n) == <<DigitChar(n \div 10), DigitChar(n % 10)>>

Digits4(n) == Digits2(n \div 100) \o Digits2(n % 100)

\* DateOut with the month and the day in each other's place.
DateOut_DayFirst(d) ==
  Digits4(d.y) \o <<"-">> \o Digits2(d.d) \o <<"-">> \o Digits2(d.m)

\* A stored date as the response carries it: YYYY-MM-DD.
DateOut(d) == Digits4(d.y) \o <<"-">> \o Digits2(d.m) \o <<"-">> \o Digits2(d.d)

\* The same for a nullable date column.
OptDateOut(od) == IF od = None THEN None ELSE Some(DateOut(od[1]))

\* The same for a nullable date field of a request.
OptParseDate(ot) == IF ot = None THEN Some(None) ELSE
  (IF ParseDate(ot[1]) = None THEN None ELSE Some(ParseDate(ot[1])))

IsoA == <<"2", "0", "2", "5", "-", "1", "2", "-", "0", "1">>

IsoB == <<"2", "0", "2", "4", "-", "0", "2", "-", "2", "9">>

CompactA == <<"2", "0", "2", "5", "1", "2", "0", "1">>

BadRange == <<"2", "0", "2", "5", "-", "0", "2", "-", "3", "0">>

BadSyntax == <<"s", "o", "o", "n">>

DateTexts == {IsoA, IsoB, CompactA, BadRange, BadSyntax}

\* ------------------------------------------------------- request bodies
Names == {"Alpha"}

\* Fields of each schema that are not Union[..., None].
ProjectRequired == {"name", "deadline", "complexity"}

EmployeeRequired == {"full_name", "position"}

AssignmentRequired == {"project_id", "employee_id", "issue_date",
                       "planned_end_date", "complexity"}

\* The body with one field left out.
Without(b, f) == [g \in DOMAIN b \ {f} |-> b[g]]

FullProjectBodies ==
  [name : Names, deadline : {IsoA, CompactA, BadRange}, complexity : {35}]

ProjectBodies ==
  FullProjectBodies \cup
  {Without([name |-> "Alpha", deadline |-> IsoA, complexity |-> 35], f) :
     f \in {"name", "deadline"}}

FullEmployeeBodies ==
  [full_name : {"Ann"}, position : {"Tester"},
   department : {None, Some("IT")}]

EmployeeBodies ==
  FullEmployeeBodies \cup
  {Without([full_name |-> "Ann", position |-> "Tester",
            department |-> None], f) : f \in {"position"}}

\* issue_date, planned_end_date, actual_end_date of the assignment requests.
AssignmentDates ==
  { <<IsoA, IsoB, None>>, <<IsoB, IsoA, Some(IsoB)>>,
    <<BadSyntax, IsoB, Some(BadRange)>> }

FullAssignmentBodies ==
  { [project_id |-> p, employee_id |-> e, issue_date |-> d[1],
     planned_end_date |-> d[2], actual_end_date |-> d[3], complexity |-> 20] :
      p \in PathIds("projects"), e \in PathIds("employees"), d \in AssignmentDates }

AssignmentBodies ==
  FullAssignmentBodies \cup
  {Without([project_id |-> 1, employee_id |-> 1, issue_date |-> IsoA,
            planned_end_date |-> IsoB, actual_end_date |-> None,
            complexity |-> 20], f) : f \in {"employee_id", "issue_date"}}

\* ------------------------------------------------------------ the store
Table(t) ==
  CASE t = "projects" -> projects
    [] t = "employees" -> employees
    [] t = "assignments" -> assignments

Ids(T) == {r.id : r \in T}

\* First without the filter on the id.
First_Unfiltered(T, i) ==
  IF T # {} THEN Some(CHOOSE r \in T : TRUE) ELSE None

\* db.query(M).filter(M.id == i).first(): the row, or None.
First(T, i) ==
  IF \E r \in T : r.id = i THEN Some(CHOOSE r \in T : r.id = i) ELSE None

\* All cut to one row.
All_Limited(T) == IF T = {} THEN {} ELSE {CHOOSE r \in T : TRUE}

\* db.query(M).all(): every row of the table.
All(T) == T

\* Remove without the commit.
Remove_Uncommitted(T, r) == T

\* db.delete(row); db.commit(): the table without the row.
Remove(T, r) == T \ {r}

\* Validate with the deadline declared as a date.
Validate_DateTyped(required, b) ==
  /\ required \subseteq DOMAIN b
  /\ "deadline" \in DOMAIN b => ParseDate(b.deadline) # None

\* Shape validation of a request body against its schema.
Validate(required, b) == required \subseteq DOMAIN b

\* The store accepts every date text of the body for its Date column.
ProjectDatesOk(b) == ParseDate(b.deadline) # None

AssignmentDatesOk(b) ==
  /\ ParseDate(b.issue_date) # None
  /\ ParseDate(b.planned_end_date) # None
  /\ OptParseDate(b.actual_end_date) # None

\* The row an INSERT stores for a body, under the id the sequence gave.
ProjectRow(id, b) ==
  [id |-> id, name |-> b.name, deadline |-> ParseDate(b.deadline)[1],
   complexity |-> b.complexity]

EmployeeRow(id, b) ==
  [id |-> id, full_name |-> b.full_name, position |-> b.position,
   department |-> b.department]

AssignmentRow(id, b) ==
  [id |-> id, project_id |-> b.project_id, employee_id |-> b.employee_id,
   issue_date |-> ParseDate(b.issue_date)[1],
   planned_end_date |-> ParseDate(b.planned_end_date)[1],
   actual_end_date |-> OptParseDate(b.actual_end_date)[1],
   complexity |-> b.complexity]

\* A row as the response carries it.
ProjectOut(r) ==
  [id |-> r.id, name |-> r.name, deadline |-> DateOut(r.deadline),
   complexity |-> r.complexity]

EmployeeOut(r) == r

AssignmentOut(r) ==
  [id |-> r.id, project_id |-> r.project_id, employee_id |-> r.employee_id,
   issue_date |-> DateOut(r.issue_date),
   planned_end_date |-> DateOut(r.planned_end_date),
   actual_end_date |-> OptDateOut(r.actual_end_date),
   complexity |-> r.complexity]

RowOut(t, r) ==
  CASE t = "projects" -> ProjectOut(r)
    [] t = "employees" -> EmployeeOut(r)
    [] t = "assignments" -> AssignmentOut(r)

\* FkParentsExist with the foreign key of employee_id left out.
FkParentsExist_ProjectOnly(b, P, E) == b.project_id \in Ids(P)

\* ForeignKey('projects.id') and ForeignKey('employees.id') on an insert.
FkParentsExist(b, P, E) == b.project_id \in Ids(P) /\ b.employee_id \in Ids(E)

\* The relationships with nothing to reconcile on a delete.
ProjectChildren_None(A, i) == {}

EmployeeChildren_None(A, i) == {}

\* The Assignment rows the two relationships give a parent row.
ProjectChildren(A, i) == {a \in A : a.project_id = i}

EmployeeChildren(A, i) == {a \in A : a.employee_id = i}

\* The id a table's sequence gives the next inserted row.
NextVal(s, t) == s[t]

\* Advance that hands the same id out again.
Advance_Stuck(s, t) == s

Advance(s, t) == [s EXCEPT ![t] = @ + 1]

\* ------------------------------------------------------------ responses
Response(op, t, arg, status, body, calls) ==
  [op |-> op, table |-> t, arg |-> arg, status |-> status, body |-> body,
   calls |-> calls]

NotFound == "not found"

Deleted == "deleted"

Invalid == "unprocessable"

StoreFailure == "store failure"

\* What a get handler answers for id i of table t holding the rows T.
Fetch(t, T, i) ==
  LET row == First(T, i) IN
    IF row = None
    THEN [status |-> 404, body |-> NotFound]
    ELSE [status |-> 200, body |-> RowOut(t, row[1])]

\* What a list handler answers for table t holding the rows T.
Listing(t, T) == {RowOut(t, r) : r \in All(T)}

\* A client's session between two requests: the kind of request it made last
\* and the status it was answered; of a delete also the table, the id and
\* whether its query found the row.
Ready(op, t, arg, found, status) ==
  [pc |-> "ready", op |-> op, table |-> t, arg |-> arg, held |-> None,
   kids |-> {}, found |-> found, status |-> status]

\* A client's session between two store calls of one request.
Midway(pc, op, t, arg, held, kids) ==
  [pc |-> pc, op |-> op, table |-> t, arg |-> arg, held |-> held,
   kids |-> kids, found |-> TRUE, status |-> 0]

\* History of the requests: the body each present row was created from.
Record(t, id, b) == [supplied EXCEPT ![t] = @ \cup {[id |-> id, body |-> b]}]

Forget(t, id) == [supplied EXCEPT ![t] = {x \in @ : x.id # id}]

Init ==
  /\ projects = {}
  /\ employees = {}
  /\ assignments = {}
  /\ seq = [t \in TableNames |-> 1]
  /\ last = Response("none", "none", None, 0, None, << >>)
  /\ supplied = [t \in TableNames |-> {}]
  /\ deleted = [t \in TableNames |-> {}]
  /\ sess = [c \in Clients |-> Ready("none", "none", 0, FALSE, 0)]
  /\ refd = {}

\* --------------------------------------------- handlers, one request each
\* The variables a request running alone leaves alone.
Serial == UNCHANGED sess

get_projects ==
  /\ last' = Response("list", "projects", None, 200,
                      Listing("projects", projects), <<"SELECT">>)
  /\ UNCHANGED <<tables, seq, supplied, deleted, refd>>
  /\ Serial

create_project(b) ==
  /\ IF ~Validate(ProjectRequired, b)
     THEN /\ last' = Response("create", "projects", b, 422, Invalid, << >>)
          /\ UNCHANGED <<tables, seq, supplied>>
     ELSE IF ~ProjectDatesOk(b)
     THEN /\ last' = Response("create", "projects", b, 500, StoreFailure,
                              <<"INSERT">>)
          /\ UNCHANGED <<tables, seq, supplied>>
     ELSE /\ MayInsert
          /\ LET id == NextVal(seq, "projects") IN
               /\ projects' = projects \cup {ProjectRow(id, b)}
               /\ seq' = Advance(seq, "projects")
               /\ last' = Response("create", "projects", b, 200,
                                   ProjectOut(First(projects', id)[1]),
                                   <<"INSERT", "SELECT">>)
               /\ supplied' = Record("projects", id, b)
          /\ UNCHANGED <<employees, assignments>>
  /\ UNCHANGED <<deleted, refd>>
  /\ Serial

get_project(project_id) ==
  /\ LET project == Fetch("projects", projects, project_id) IN
       last' = Response("get", "projects", project_id, project.status, project.body,
                        <<"SELECT">>)
  /\ UNCHANGED <<tables, seq, supplied, deleted, refd>>
  /\ Serial

delete_project(project_id) ==
  /\ LET project == First(projects, project_id) IN
       IF project = None
       THEN /\ last' = Response("delete", "projects", project_id, 404,
                                NotFound, <<"SELECT">>)
            /\ UNCHANGED <<tables, deleted, supplied>>
       ELSE IF ProjectChildren(assignments, project_id) # {}
       THEN /\ last' = Response("delete", "projects", project_id, 500,
                                StoreFailure, <<"SELECT", "SELECT", "UPDATE">>)
            /\ UNCHANGED <<tables, deleted, supplied>>
       ELSE /\ projects' = Remove(projects, project[1])
            /\ last' = Response("delete", "projects", project_id, 200,
                                Deleted, <<"SELECT", "SELECT", "DELETE">>)
            /\ deleted' = [deleted EXCEPT !["projects"] = @ \cup {project_id}]
            /\ supplied' = Forget("projects", project_id)
            /\ UNCHANGED <<employees, assignments>>
  /\ UNCHANGED <<seq, refd>>
  /\ Serial

get_employees ==
  /\ last' = Response("list", "employees", None, 200,
                      Listing("employees", employees), <<"SELECT">>)
  /\ UNCHANGED <<tables, seq, supplied, deleted, refd>>
  /\ Serial

create_employee(b) ==
  /\ IF ~Validate(EmployeeRequired, b)
     THEN /\ last' = Response("create", "employees", b, 422, Invalid, << >>)
          /\ UNCHANGED <<tables, seq, supplied>>
     ELSE /\ MayInsert
          /\ LET id == NextVal(seq, "employees") IN
               /\ employees' = employees \cup {EmployeeRow(id, b)}
               /\ seq' = Advance(seq, "employees")
               /\ last' = Response("create", "employees", b, 200,
                                   EmployeeOut(First(employees', id)[1]),
                                   <<"INSERT", "SELECT">>)
               /\ supplied' = Record("employees", id, b)
          /\ UNCHANGED <<projects, assignments>>
  /\ UNCHANGED <<deleted, refd>>
  /\ Serial

get_employee(employee_id) ==
  /\ LET employee == Fetch("employees", employees, employee_id) IN
       last' = Response("get", "employees", employee_id, employee.status, employee.body,
                        <<"SELECT">>)
  /\ UNCHANGED <<tables, seq, supplied, deleted, refd>>
  /\ Serial

delete_employee(employee_id) ==
  /\ LET employee == First(employees, employee_id) IN
       IF employee = None
       THEN /\ last' = Response("delete", "employees", employee_id, 404,
                                NotFound, <<"SELECT">>)
            /\ UNCHANGED <<tables, deleted, supplied>>
       ELSE IF EmployeeChildren(assignments, employee_id) # {}
       THEN /\ last' = Response("delete", "employees", employee_id, 500,
                                StoreFailure, <<"SELECT", "SELECT", "UPDATE">>)
            /\ UNCHANGED <<tables, deleted, supplied>>
       ELSE /\ employees' = Remove(employees, employee[1])
            /\ last' = Response("delete", "employees", employee_id, 200,
                                Deleted, <<"SELECT", "SELECT", "DELETE">>)
            /\ deleted' = [deleted EXCEPT !["employees"] = @ \cup {employee_id}]
            /\ supplied' = Forget("employees", employee_id)
            /\ UNCHANGED <<projects, assignments>>
  /\ UNCHANGED <<seq, refd>>
  /\ Serial

get_assignments ==
  /\ last' = Response("list", "assignments", None, 200,
                      Listing("assignments", assignments), <<"SELECT">>)
  /\ UNCHANGED <<tables, seq, supplied, deleted, refd>>
  /\ Serial

create_assignment(b) ==
  /\ IF ~Validate(AssignmentRequired, b)
     THEN /\ last' = Response("create", "assignments", b, 422, Invalid, << >>)
          /\ UNCHANGED <<tables, seq, supplied, refd>>
     ELSE IF ~AssignmentDatesOk(b)
     THEN /\ last' = Response("create", "assignments", b, 500, StoreFailure,
                              <<"INSERT">>)
          /\ UNCHANGED <<tables, seq, supplied, refd>>
     ELSE IF ~FkParentsExist(b, projects, employees)
     THEN /\ MayInsert
          /\ seq' = Advance(seq, "assignments")
          /\ last' = Response("create", "assignments", b, 500, StoreFailure,
                              <<"INSERT">>)
          /\ UNCHANGED <<tables, supplied, refd>>
     ELSE /\ MayInsert
          /\ LET id == NextVal(seq, "assignments") IN
               /\ assignments' = assignments \cup {AssignmentRow(id, b)}
               /\ seq' = Advance(seq, "assignments")
               /\ last' = Response("create", "assignments", b, 200,
                                   AssignmentOut(First(assignments', id)[1]),
                                   <<"INSERT", "SELECT">>)
               /\ supplied' = Record("assignments", id, b)
          /\ UNCHANGED refd
          /\ UNCHANGED <<projects, employees>>
  /\ UNCHANGED deleted
  /\ Serial

get_assignment(assignment_id) ==
  /\ LET assignment == Fetch("assignments", assignments, assignment_id) IN
       last' = Response("get", "assignments", assignment_id, assignment.status, assignment.body,
                        <<"SELECT">>)
  /\ UNCHANGED <<tables, seq, supplied, deleted, refd>>
  /\ Serial

delete_assignment(assignment_id) ==
  /\ LET assignment == First(assignments, assignment_id) IN
       IF assignment = None
       THEN /\ last' = Response("delete", "assignments", assignment_id, 404,
                                NotFound, <<"SELECT">>)
            /\ UNCHANGED <<tables, deleted, supplied>>
       ELSE /\ assignments' = Remove(assignments, assignment[1])
            /\ last' = Response("delete", "assignments", assignment_id, 200,
                                Deleted, <<"SELECT", "DELETE">>)
            /\ deleted' = [deleted EXCEPT !["assignments"] = @ \cup {assignment_id}]
            /\ supplied' = Forget("assignments", assignment_id)
            /\ UNCHANGED <<projects, employees>>
  /\ UNCHANGED <<seq, refd>>
  /\ Serial

Next ==
  \/ get_projects
  \/ \E b \in ProjectBodies : create_project(b)
  \/ \E i \in PathIds("projects") : get_project(i)
  \/ \E i \in PathIds("projects") : delete_project(i)
  \/ get_employees
  \/ \E b \in EmployeeBodies : create_employee(b)
  \/ \E i \in PathIds("employees") : get_employee(i)
  \/ \E i \in PathIds("employees") : delete_employee(i)
  \/ get_assignments
  \/ \E b \in AssignmentBodies : create_assignment(b)
  \/ \E i \in PathIds("assignments") : get_assignment(i)
  \/ \E i \in PathIds("assignments") : delete_assignment(i)

Spec == Init /\ [][Next]_vars

\* ------------------------------------------------------------- vocabulary
Required(t) ==
  CASE t = "projects" -> ProjectRequired
    [] t = "employees" -> EmployeeRequired
    [] t = "assignments" -> AssignmentRequired

\* The date fields of a body that hold a text, and the one that may be null.
DateFields(t) ==
  CASE t = "projects" -> {"deadline"}
    [] t = "employees" -> {}
    [] t = "assignments" -> {"issue_date", "planned_end_date"}

OptDateFields(t) ==
  CASE t = "assignments" -> {"actual_end_date"}
    [] OTHER -> {}

\* The date texts a body of table t carries.
DateTextsOf(t, b) ==
  {b[f] : f \in DateFields(t) \cap DOMAIN b} \cup
  {b[f][1] : f \in {g \in OptDateFields(t) \cap DOMAIN b : b[g] # None}}

\* A calendar date written YYYY-MM-DD.
IsExchangeDate(s) == IsIsoShape(s) /\ ParseDate(s) # None

\* A body with every required field and every date written YYYY-MM-DD.
ValidFields(t, b) ==
  /\ Required(t) \subseteq DOMAIN b
  /\ \A s \in DateTextsOf(t, b) : IsExchangeDate(s)

MissingField(t, b) == ~(Required(t) \subseteq DOMAIN b)

BadDate(t, b) == \E s \in DateTextsOf(t, b) : ParseDate(s) = None

TableNext(t) ==
  CASE t = "projects" -> projects'
    [] t = "employees" -> employees'
    [] t = "assignments" -> assignments'

\* The Assignment rows that reference row i of table t.
Referencing(t, i) ==
  CASE t = "projects" -> {a \in assignments : a.project_id = i}
    [] t = "employees" -> {a \in assignments : a.employee_id = i}
    [] t = "assignments" -> {}

\* The step just taken answered a request of kind op.
Answered(op) == last'.op = op

\* ------------------------------------ handlers, one store call per step
Bodies(t) ==
  CASE t = "projects" -> ProjectBodies
    [] t = "employees" -> EmployeeBodies
    [] t = "assignments" -> AssignmentBodies

DatesOk(t, b) ==
  CASE t = "projects" -> ProjectDatesOk(b)
    [] t = "employees" -> TRUE
    [] t = "assignments" -> AssignmentDatesOk(b)

Row(t, id, b) ==
  CASE t = "projects" -> ProjectRow(id, b)
    [] t = "employees" -> EmployeeRow(id, b)
    [] t = "assignments" -> AssignmentRow(id, b)

\* Table t becomes T, the other two tables stay.
Store(t, T) ==
  /\ projects' = IF t = "projects" THEN T ELSE projects
  /\ employees' = IF t = "employees" THEN T ELSE employees
  /\ assignments' = IF t = "assignments" THEN T ELSE assignments

\* The variables the interleaved runs leave alone.
Interleaved == UNCHANGED <<last, supplied, deleted>>

\* DeleteOfMissingRowFails as with a version counter: a stale delete raises.
DeleteOfMissingRowFails_Stale(T, r) == r \notin T

\* Whether the flush fails when its DELETE matches no row: the mapper has no
\* version counter, so the unit of work only warns.
DeleteOfMissingRowFails(T, r) == FALSE

\* get_projects, get_employees, get_assignments.
c_list(c, t) ==
  /\ sess[c].pc = "ready"
  /\ sess' = [sess EXCEPT ![c] = Ready("list", "none", 0, FALSE, 200)]
  /\ UNCHANGED <<tables, seq, refd>>
  /\ Interleaved

\* get_project, get_employee, get_assignment.
c_get(c, t, i) ==
  /\ sess[c].pc = "ready"
  /\ sess' = [sess EXCEPT ![c] =
                Ready("get", "none", 0, FALSE, Fetch(t, Table(t), i).status)]
  /\ UNCHANGED <<tables, seq, refd>>
  /\ Interleaved

\* create_*: validation, then db.add and db.commit.
c_create_commit(c, t, b) ==
  /\ sess[c].pc = "ready"
  /\ IF ~Validate(Required(t), b)
     THEN /\ sess' = [sess EXCEPT ![c] = Ready("create", "none", 0, FALSE, 422)]
          /\ UNCHANGED <<tables, seq, refd>>
     ELSE IF ~DatesOk(t, b)
     THEN /\ sess' = [sess EXCEPT ![c] = Ready("create", "none", 0, FALSE, 500)]
          /\ UNCHANGED <<tables, seq, refd>>
     ELSE IF t = "assignments" /\ ~FkParentsExist(b, projects, employees)
     THEN /\ MayInsertConc
          /\ seq' = Advance(seq, t)
          /\ sess' = [sess EXCEPT ![c] = Ready("create", "none", 0, FALSE, 500)]
          /\ UNCHANGED <<tables, refd>>
     ELSE /\ MayInsertConc
          /\ LET id == NextVal(seq, t) IN
               /\ Store(t, Table(t) \cup {Row(t, id, b)})
               /\ sess' = [sess EXCEPT ![c] =
                             Midway("inserted", "create", t, id, None, {})]
          /\ seq' = Advance(seq, t)
          /\ refd' = IF t = "assignments"
                     THEN refd \cup {<<"projects", b.project_id>>,
                                     <<"employees", b.employee_id>>}
                     ELSE refd
  /\ Interleaved

\* create_*: db.refresh of the new row and the response.
c_create_refresh(c) ==
  /\ sess[c].pc = "inserted"
  /\ LET t == sess[c].table
         id == sess[c].arg IN
       sess' = [sess EXCEPT ![c] =
                  Ready("create", "none", 0, FALSE,
                        IF First(Table(t), id) = None THEN 500 ELSE 200)]
  /\ UNCHANGED <<tables, seq, refd>>
  /\ Interleaved

\* delete_*: the query and the 404.
c_delete_query(c, t, i) ==
  /\ sess[c].pc = "ready"
  /\ LET row == First(Table(t), i) IN
       IF row = None
       THEN sess' = [sess EXCEPT ![c] = Ready("delete", t, i, FALSE, 404)]
       ELSE sess' = [sess EXCEPT ![c] =
                       Midway("selected", "delete", t, i, row, {})]
  /\ UNCHANGED <<tables, seq, refd>>
  /\ Interleaved

\* delete_project, delete_employee: the flush loads the row's assignments.
c_delete_load(c) ==
  /\ sess[c].pc = "selected"
  /\ sess[c].table \in {"projects", "employees"}
  /\ sess' = [sess EXCEPT ![c] =
                Midway("loaded", "delete", sess[c].table, sess[c].arg,
                       sess[c].held,
                       Referencing(sess[c].table, sess[c].arg))]
  /\ UNCHANGED <<tables, seq, refd>>
  /\ Interleaved

\* delete_*: the flush writes and db.commit ends the request.
c_delete_commit(c) ==
  /\ \/ sess[c].pc = "loaded"
     \/ sess[c].pc = "selected" /\ sess[c].table = "assignments"
  /\ LET t == sess[c].table
         i == sess[c].arg
         row == sess[c].held[1] IN
       IF \/ sess[c].kids # {}
          \/ Referencing(t, i) # {}
          \/ DeleteOfMissingRowFails(Table(t), row)
       THEN /\ sess' = [sess EXCEPT ![c] = Ready("delete", t, i, TRUE, 500)]
            /\ UNCHANGED tables
       ELSE /\ Store(t, Remove(Table(t), row))
            /\ sess' = [sess EXCEPT ![c] = Ready("delete", t, i, TRUE, 200)]
  /\ UNCHANGED <<seq, refd>>
  /\ Interleaved

NextConc ==
  \E c \in Clients :
    \/ \E t \in TableNames : c_list(c, t)
    \/ \E t \in TableNames : \E i \in PathIds(t) : c_get(c, t, i)
    \/ \E t \in TableNames : \E b \in Bodies(t) : c_create_commit(c, t, b)
    \/ c_create_refresh(c)
    \/ \E t \in TableNames : \E i \in PathIds(t) : c_delete_query(c, t, i)
    \/ c_delete_load(c)
    \/ c_delete_commit(c)

SpecConc == Init /\ [][NextConc]_vars

\* ------------------------------------------------------------------ claims

\* C1: for each entity and every valid field set, a row created from the
\* fields and not deleted since is fetched by its id with status 200 and with
\* every field equal to the value supplied, whatever requests came between.
C1_CreateThenGet ==
  \A t \in TableNames : \A x \in supplied[t] :
    ValidFields(t, x.body) =>
      LET got == Fetch(t, Table(t), x.id) IN
        /\ got.status = 200
        /\ got.body.id = x.id
        /\ \A f \in DOMAIN x.body : got.body[f] = x.body[f]

\* A get has just answered an Assignment created with a non-null
\* actual_end_date, after a delete in the same table.
C1_Witness ==
  /\ last.op = "get" /\ last.table = "assignments" /\ last.status = 200
  /\ deleted["assignments"] # {}
  /\ \E x \in supplied["assignments"] :
       /\ x.id = last.arg
       /\ ValidFields("assignments", x.body)
       /\ x.body.actual_end_date # None
       /\ last.body.actual_end_date = x.body.actual_end_date

\* C2: a get or a delete of an id that is not in the entity's table answers
\* not-found (404) and leaves the three tables unchanged.
C2_AbsentIdNotFound ==
  [][ ((Answered("get") \/ Answered("delete"))
         /\ last'.arg \notin Ids(Table(last'.table)))
      => (last'.status = 404 /\ UNCHANGED tables) ]_vars

\* A delete of an absent id was answered while the table held another row.
C2_Witness ==
  /\ last.op = "delete" /\ last.status = 404
  /\ Table(last.table) # {}
  /\ last.arg \notin Ids(Table(last.table))

\* C3 as stated: a delete of any present id, referenced or not, answers the
\* acknowledgment and removes the row.
C3_DeleteAlwaysRemoves ==
  [][ (Answered("delete") /\ last'.arg \in Ids(Table(last'.table)))
      => (last'.status = 200
          /\ last'.arg \notin Ids(TableNext(last'.table))) ]_vars

\* C3 amended, the step: a delete of a present id that no Assignment
\* references answers the acknowledgment and removes the row.
C3_DeleteStep ==
  (Answered("delete") /\ last'.arg \in Ids(Table(last'.table))
     /\ Referencing(last'.table, last'.arg) = {})
  => (last'.status = 200 /\ last'.body = Deleted
      /\ last'.arg \notin Ids(TableNext(last'.table)))

\* C3 amended, afterwards: every id deleted with an acknowledgment is fetched
\* as not-found from then on.
C3_DeletedStaysGone ==
  \A t \in TableNames : \A i \in deleted[t] :
    Fetch(t, Table(t), i).status = 404

\* C3 amended: a delete of a present id that no Assignment references answers
\* the acknowledgment and removes the row, and every later get of that id
\* answers not-found.
C3_DeleteUnreferenced == [][C3_DeleteStep]_vars /\ []C3_DeletedStaysGone

\* A Project was deleted and a later get of its id answered not-found, after
\* an Assignment had been created and deleted.
C3_Witness ==
  /\ last.op = "get" /\ last.table = "projects" /\ last.status = 404
  /\ last.arg \in deleted["projects"]
  /\ deleted["assignments"] # {}

\* C4: an Assignment create whose project_id or employee_id is not the id of
\* a present row is rejected, and the three tables are unchanged.
C4_DanglingCreateRejected ==
  [][ (Answered("create") /\ last'.table = "assignments"
         /\ {"project_id", "employee_id"} \subseteq DOMAIN last'.arg
         /\ ~(last'.arg.project_id \in Ids(projects)
              /\ last'.arg.employee_id \in Ids(employees)))
      => (last'.status # 200 /\ UNCHANGED tables) ]_vars

\* An otherwise valid Assignment create naming an existing project and a
\* missing employee was refused by the store.
C4_Witness ==
  /\ last.op = "create" /\ last.table = "assignments" /\ last.status = 500
  /\ ValidFields("assignments", last.arg)
  /\ last.arg.project_id \in Ids(projects)
  /\ last.arg.employee_id \notin Ids(employees)

\* C5: in every reachable state every Assignment row's project_id is the id
\* of a Project row and its employee_id is the id of an Employee row.
C5_ReferencesExist ==
  \A a \in assignments :
    a.project_id \in Ids(projects) /\ a.employee_id \in Ids(employees)

\* A delete of a referenced Employee was just attempted and the Assignment is
\* still there.
C5_Witness ==
  /\ last.op = "delete" /\ last.table = "employees"
  /\ \E a \in assignments : a.employee_id = last.arg

\* C6 as stated: a delete of a Project or Employee that Assignments reference
\* succeeds, removes the parent and leaves the Assignment rows as they were.
C6_DeleteOrphans ==
  [][ (Answered("delete") /\ last'.table \in {"projects", "employees"}
         /\ last'.arg \in Ids(Table(last'.table))
         /\ Referencing(last'.table, last'.arg) # {})
      => (last'.status = 200
          /\ last'.arg \notin Ids(TableNext(last'.table))
          /\ assignments' = assignments) ]_vars

\* C6 amended: a delete of a Project or Employee that Assignments reference
\* cascades nothing and is refused with a store failure; the parent row and
\* every Assignment row stay as they were.
C6_DeleteReferencedRefused ==
  [][ (Answered("delete") /\ last'.table \in {"projects", "employees"}
         /\ last'.arg \in Ids(Table(last'.table))
         /\ Referencing(last'.table, last'.arg) # {})
      => (last'.status = 500 /\ UNCHANGED tables) ]_vars

\* A delete of a referenced Project was refused.
C6_Witness ==
  /\ last.op = "delete" /\ last.table = "projects" /\ last.status = 500
  /\ Referencing("projects", last.arg) # {}
  /\ last.arg \in Ids(projects)

\* C7: for each entity the listing has at least as many rows as rows were
\* created and not deleted, and holds each of them under its id.
C7_ListHoldsCreated ==
  \A t \in TableNames :
    /\ Cardinality(Listing(t, Table(t))) >= Cardinality(supplied[t])
    /\ \A x \in supplied[t] : \E r \in Listing(t, Table(t)) : r.id = x.id

\* A listing of two created Projects was answered, no Project deleted.
C7_Witness ==
  /\ last.op = "list" /\ last.table = "projects"
  /\ Cardinality(supplied["projects"]) = 2
  /\ deleted["projects"] = {}
  /\ Cardinality(last.body) = 2

\* C8 as stated: a create whose body lacks a required field or carries a date
\* text that is no calendar date is rejected by shape validation, with no
\* store call and the store unchanged.
C8_MalformedRejectedByShape ==
  [][ (Answered("create")
         /\ (MissingField(last'.table, last'.arg)
             \/ BadDate(last'.table, last'.arg)))
      => (last'.status = 422 /\ last'.calls = << >>
          /\ UNCHANGED <<tables, seq>>) ]_vars

\* C8 amended: a create whose body lacks a required field is rejected by
\* shape validation with no store call and the store unchanged; a body with
\* every required field and a date text that is no calendar date passes shape
\* validation, the handler runs its insert, the store refuses it and the
\* three tables are unchanged.
C8_MalformedRejected ==
  [][ /\ (Answered("create") /\ MissingField(last'.table, last'.arg))
           => (last'.status = 422 /\ last'.calls = << >>
               /\ UNCHANGED <<tables, seq>>)
      /\ (Answered("create") /\ ~MissingField(last'.table, last'.arg)
            /\ BadDate(last'.table, last'.arg))
           => (last'.status = 500 /\ last'.calls = <<"INSERT">>
               /\ UNCHANGED tables) ]_vars

\* A Project create with the deadline 2025-02-30 was refused by the store.
C8_Witness ==
  /\ last.op = "create" /\ last.table = "projects"
  /\ ~MissingField("projects", last.arg)
  /\ last.arg.deadline = BadRange
  /\ last.status = 500
  /\ projects # {}

\* C10, the states: within each table no two rows share an id.
C10_IdsDistinct ==
  \A t \in TableNames : \A r1, r2 \in Table(t) : r1.id = r2.id => r1 = r2

\* C10, the step: a successful create returns an id no row of the table had.
C10_CreateStep ==
  (Answered("create") /\ last'.status = 200)
  => (last'.body.id \notin Ids(Table(last'.table))
      /\ Table(last'.table) \subseteq TableNext(last'.table))

\* C10: within each table ids are pairwise distinct in every reachable state,
\* and a successful create is given an id that no row present in the table
\* has, so it never overwrites or aliases a row.
C10_FreshIds == [][C10_CreateStep]_vars /\ []C10_IdsDistinct

\* A Project was just created after another one had been deleted, beside a
\* Project that was still there.
C10_Witness ==
  /\ last.op = "create" /\ last.table = "projects" /\ last.status = 200
  /\ deleted["projects"] # {}
  /\ Cardinality(projects) = 2

\* Both clients were answered a delete of row i of table t.
BothDeleted(t, i) ==
  \A c \in Clients :
    /\ sess[c].pc = "ready" /\ sess[c].op = "delete"
    /\ sess[c].table = t /\ sess[c].arg = i

\* C9 as stated: of two deletes of the same existing id exactly one answers
\* the acknowledgment and the other not-found, as in a serial order.
C9_ExactlyOneAck ==
  \A t \in TableNames : \A i \in PathIds(t) :
    (BothDeleted(t, i) /\ <<t, i>> \notin refd
       /\ \E c \in Clients : sess[c].found)
    => \E c1, c2 \in Clients :
         c1 # c2 /\ sess[c1].status = 200 /\ sess[c2].status = 404

\* C9 amended: a delete is a query and, in a later store call, the DELETE with
\* its commit.  Of two deletes of the same id that no Assignment ever
\* referenced, each one whose query found the row answers the acknowledgment
\* (both do when both queries ran before either DELETE), one whose query found
\* nothing answers not-found, none answers a store failure, and the row is
\* gone once one of them found it.
C9_EachFinderAcks ==
  \A t \in TableNames : \A i \in PathIds(t) :
    (BothDeleted(t, i) /\ <<t, i>> \notin refd)
    => /\ \A c \in Clients :
            sess[c].status = IF sess[c].found THEN 200 ELSE 404
       /\ (\E c \in Clients : sess[c].found) => i \notin Ids(Table(t))

\* Both clients were answered the acknowledgment for the same Project, which
\* no Assignment ever referenced.
C9_Witness ==
  \E i \in PathIds("projects") :
    /\ BothDeleted("projects", i)
    /\ <<"projects", i>> \notin refd
    /\ \A c \in Clients : sess[c].found /\ sess[c].status = 200

====
